---- MODULE Spec2Model ----
(***************************************************************************)
(* Model of src/src/utility_glm.cpp: the family / link kernels used by the *)
(* IRLS loop (initial_mu, muvalid, mu_adjust, dlink, linkfun, invlink,     *)
(* varfun).                                                                *)
(*                                                                         *)
(* A double is modelled as an exact real number.  Rationals are kept as    *)
(* normalised fractions; log and exp of a value that is not rational are   *)
(* kept as terms (ln(a), exp(a), c*t, 1/t, a+b, a*b) in a normal form, so  *)
(* that equality of two results is equality of real numbers up to the      *)
(* rounding of the floating-point operations.  Inputs range over finite    *)
(* numbers; the link kernels are called on the inputs for which their      *)
(* formula is a finite real number.                                        *)
(***************************************************************************)
EXTENDS Integers, Sequences, FiniteSets, TLC

VARIABLES trace

vars == <<trace>>

\* Longest vector passed to a kernel.
MaxLen == 2
\* Longest pipeline of calls in which each call consumes the previous result.
MaxChain == 3

----------------------------------------------------------------------------
\* Exact arithmetic on doubles.

Abs(i) == IF i < 0 THEN -i ELSE i

RECURSIVE GCD(_, _)
GCD(a, b) == IF b = 0 THEN a ELSE GCD(b, a % b)

\* The fraction n/d (d # 0) in lowest terms with a positive denominator.
Rat(n, d) ==
    LET g == GCD(Abs(n), Abs(d))
        s == IF d < 0 THEN -1 ELSE 1
    IN  [k |-> "rat", n |-> (s * n) \div g, d |-> (s * d) \div g]

Zero == Rat(0, 1)
One == Rat(1, 1)
MinusOne == Rat(-1, 1)

IsRat(v) == v.k = "rat"

\* a < b, a > b, a <= b on rationals (operator<, operator>, operator<= on double).
Less(a, b) == a.n * b.d < b.n * a.d
Greater(a, b) == Less(b, a)
LessEq(a, b) == ~Less(b, a)

RatAdd(a, b) == Rat(a.n * b.d + b.n * a.d, a.d * b.d)
RatMul(a, b) == Rat(a.n * b.n, a.d * b.d)
RatInv(a) == Rat(a.d, a.n)

\* c * t for a rational c and a term t that is not rational.
ScaleBy(c, t) ==
    IF c = Zero THEN Zero
    ELSE LET cc == IF t.k = "scale" THEN RatMul(c, t.c) ELSE c
             core == IF t.k = "scale" THEN t.a ELSE t
         IN  IF cc = One THEN core ELSE [k |-> "scale", c |-> cc, a |-> core]

Coef(v) == IF v.k = "scale" THEN v.c ELSE One
Core(v) == IF v.k = "scale" THEN v.a ELSE v

\* a + b
Plus(a, b) ==
    IF IsRat(a) /\ IsRat(b) THEN RatAdd(a, b)
    ELSE IF a = Zero THEN b
    ELSE IF b = Zero THEN a
    ELSE [k |-> "add", a |-> a, b |-> b]

\* a * b (element of arma's a % b)
Times(a, b) ==
    IF IsRat(a) /\ IsRat(b) THEN RatMul(a, b)
    ELSE IF IsRat(a) THEN ScaleBy(a, b)
    ELSE IF IsRat(b) THEN ScaleBy(b, a)
    ELSE ScaleBy(RatMul(Coef(a), Coef(b)),
                 [k |-> "mul", a |-> Core(a), b |-> Core(b)])

\* a - b
Minus(a, b) == Plus(a, Times(MinusOne, b))

\* 1 / a, for a # 0
Recip(a) ==
    IF IsRat(a) THEN RatInv(a)
    ELSE LET t == Core(a)
             r == IF t.k = "inv" THEN t.a ELSE [k |-> "inv", a |-> t]
         IN  ScaleBy(RatInv(Coef(a)), r)

\* a / b, for b # 0
Divide(a, b) == Times(a, Recip(b))

\* log(a), for a > 0
Log(a) ==
    IF a = One THEN Zero
    ELSE IF a.k = "exp" THEN a.a
    ELSE [k |-> "ln", a |-> a]

\* exp(a)
Exp(a) ==
    IF a = Zero THEN One
    ELSE IF a.k = "ln" THEN a.a
    ELSE [k |-> "exp", a |-> a]

\* Vectors are sequences of doubles.
ones(N) == [i \in 1..N |-> One]
zeros(N) == [i \in 1..N |-> Zero]

VPlus(a, b) == [i \in DOMAIN a |-> Plus(a[i], b[i])]
VMinus(a, b) == [i \in DOMAIN a |-> Minus(a[i], b[i])]
VTimes(a, b) == [i \in DOMAIN a |-> Times(a[i], b[i])]
VDivide(a, b) == [i \in DOMAIN a |-> Divide(a[i], b[i])]
VLog(a) == [i \in DOMAIN a |-> Log(a[i])]
VExp(a) == [i \in DOMAIN a |-> Exp(a[i])]

\* The conversion of a comparison's result to double in valid(i) = (...).
Double(b) == IF b THEN One ELSE Zero

----------------------------------------------------------------------------
\* What a call gives back: a vector, or the exception of Rcpp's stop().

Return(v) == [status |-> "ok", val |-> v]
Stop(msg) == [status |-> "error", msg |-> msg]

bin == "binomial"
pois == "poisson"
gaus == "gaussian"
Gamma == "Gamma"

----------------------------------------------------------------------------
\* initial_mu: the loops run i = 1..N over y and stop at the first element
\* that violates the family's domain.  mu is the vector under construction.

\* initial_mu_bin without the division by the number of trials.
RECURSIVE initial_mu_bin_unhalved(_, _, _, _)
initial_mu_bin_unhalved(y, N, i, mu) ==
    IF i > N THEN Return(mu)
    ELSE IF Less(y[i], Zero)
         THEN Stop("negative values not allowed for the Binomial family")
    ELSE IF Greater(y[i], One)
         THEN Stop("# of success is larger than 1")
    ELSE initial_mu_bin_unhalved(y, N, i + 1,
             [mu EXCEPT ![i] = Plus(y[i], Rat(1, 2))])

RECURSIVE initial_mu_bin(_, _, _, _)
initial_mu_bin(y, N, i, mu) ==
    IF i > N THEN Return(mu)
    ELSE IF Less(y[i], Zero)
         THEN Stop("negative values not allowed for the Binomial family")
    ELSE IF Greater(y[i], One)
         THEN Stop("# of success is larger than 1")
    ELSE initial_mu_bin(y, N, i + 1,
             [mu EXCEPT ![i] = Divide(Plus(y[i], Rat(1, 2)), Plus(One, One))])

\* initial_mu_pois without the 0.1 added to the count.
RECURSIVE initial_mu_pois_no_offset(_, _, _, _)
initial_mu_pois_no_offset(y, N, i, mu) ==
    IF i > N THEN Return(mu)
    ELSE IF Less(y[i], Zero)
         THEN Stop("negative values not allowed for the Poisson family")
    ELSE initial_mu_pois_no_offset(y, N, i + 1, [mu EXCEPT ![i] = y[i]])

RECURSIVE initial_mu_pois(_, _, _, _)
initial_mu_pois(y, N, i, mu) ==
    IF i > N THEN Return(mu)
    ELSE IF Less(y[i], Zero)
         THEN Stop("negative values not allowed for the Poisson family")
    ELSE initial_mu_pois(y, N, i + 1, [mu EXCEPT ![i] = Plus(y[i], Rat(1, 10))])

RECURSIVE initial_mu_gaus(_, _, _, _)
initial_mu_gaus(y, N, i, mu) ==
    IF i > N THEN Return(mu)
    ELSE initial_mu_gaus(y, N, i + 1, [mu EXCEPT ![i] = y[i]])

\* initial_mu_Gamma testing y[i] < 0 in place of y[i] <= 0.
RECURSIVE initial_mu_Gamma_accepts_zero(_, _, _, _)
initial_mu_Gamma_accepts_zero(y, N, i, mu) ==
    IF i > N THEN Return(mu)
    ELSE IF Less(y[i], Zero)
         THEN Stop("non-poistive values not allowed for the Gamma family")
    ELSE initial_mu_Gamma_accepts_zero(y, N, i + 1,
             [mu EXCEPT ![i] = Plus(y[i], Rat(1, 10))])

RECURSIVE initial_mu_Gamma(_, _, _, _)
initial_mu_Gamma(y, N, i, mu) ==
    IF i > N THEN Return(mu)
    ELSE IF LessEq(y[i], Zero)
         THEN Stop("non-poistive values not allowed for the Gamma family")
    ELSE initial_mu_Gamma(y, N, i + 1, [mu EXCEPT ![i] = Plus(y[i], Rat(1, 10))])

\* uninit is the content of the freshly allocated arma::vec mu(N).
initial_mu(family, y, N, uninit) ==
    IF family = bin THEN initial_mu_bin(y, N, 1, uninit)
    ELSE IF family = pois THEN initial_mu_pois(y, N, 1, uninit)
    ELSE IF family = gaus THEN initial_mu_gaus(y, N, 1, uninit)
    ELSE IF family = Gamma THEN initial_mu_Gamma(y, N, 1, uninit)
    ELSE Return(uninit)

----------------------------------------------------------------------------
\* muvalid

muvalid_minb == Rat(1, 10000)
muvalid_maxb == Rat(9999, 10000)
muvalid_minp == Rat(1, 10000)
muvalid_gammaMin == Rat(1, 1000)

\* muvalid with >= and <= in place of > and <.
muvalid_nonstrict(family, mu) ==
    LET N == Len(mu) IN
    IF family = bin THEN
        Return([i \in 1..N |->
                  Double(LessEq(muvalid_minb, mu[i]) /\ LessEq(mu[i], muvalid_maxb))])
    ELSE IF family = pois THEN
        Return([i \in 1..N |-> Double(LessEq(muvalid_minp, mu[i]))])
    ELSE IF family = gaus THEN
        Return([i \in 1..N |-> One])
    ELSE IF family = Gamma THEN
        Return([i \in 1..N |-> Double(LessEq(muvalid_gammaMin, mu[i]))])
    ELSE Stop("invalid family \n")

muvalid(family, mu) ==
    LET N == Len(mu) IN
    IF family = bin THEN
        Return([i \in 1..N |->
                  Double(Greater(mu[i], muvalid_minb) /\ Less(mu[i], muvalid_maxb))])
    ELSE IF family = pois THEN
        Return([i \in 1..N |-> Double(Greater(mu[i], muvalid_minp))])
    ELSE IF family = gaus THEN
        Return([i \in 1..N |-> One])
    ELSE IF family = Gamma THEN
        Return([i \in 1..N |-> Double(Greater(mu[i], muvalid_gammaMin))])
    ELSE Stop("invalid family \n")

----------------------------------------------------------------------------
\* mu_adjust

\* The lower binomial clamp set to muvalid's constant.
mu_adjust_minb_as_muvalid == Rat(1, 10000)

mu_adjust_minb == Rat(1, 1000)
mu_adjust_maxb == Rat(999, 1000)
mu_adjust_minp == Rat(1, 1000)
mu_adjust_gammaMin == Rat(1, 1000)

mu_adjust(family, mu) ==
    LET N == Len(mu)
        mu_new == mu
    IN
    IF family = bin THEN
        Return([i \in 1..N |->
                  IF Less(mu[i], mu_adjust_minb) THEN mu_adjust_minb
                  ELSE IF Greater(mu[i], mu_adjust_maxb) THEN mu_adjust_maxb
                  ELSE mu_new[i]])
    ELSE IF family = pois THEN
        Return([i \in 1..N |->
                  IF Less(mu[i], mu_adjust_minp) THEN mu_adjust_minp ELSE mu_new[i]])
    ELSE IF family = Gamma THEN
        Return([i \in 1..N |->
                  IF Less(mu[i], mu_adjust_gammaMin) THEN mu_adjust_gammaMin
                  ELSE mu_new[i]])
    ELSE IF family = gaus THEN
        Return(mu)
    ELSE Stop("invalid family \n")

----------------------------------------------------------------------------
\* varfun

\* varfun without its final else, as initial_mu is written: V is returned
\* as it was allocated.
varfun_fallthrough(family, mu) ==
    LET N == Len(mu)
        ones_vec == ones(N)
    IN
    IF family = bin THEN Return(VTimes(mu, VMinus(ones_vec, mu)))
    ELSE IF family = pois THEN Return(mu)
    ELSE IF family = gaus THEN Return(ones_vec)
    ELSE IF family = Gamma THEN Return(VTimes(mu, mu))
    ELSE Return(zeros(N))

varfun(family, mu) ==
    LET N == Len(mu)
        ones_vec == ones(N)
    IN
    IF family = bin THEN Return(VTimes(mu, VMinus(ones_vec, mu)))
    ELSE IF family = pois THEN Return(mu)
    ELSE IF family = gaus THEN Return(ones_vec)
    ELSE IF family = Gamma THEN Return(VTimes(mu, mu))
    ELSE Stop("invalid family \n")

----------------------------------------------------------------------------
\* dlink

dlink(link, mu) ==
    LET N == Len(mu)
        ones_vec == ones(N)
        zeros_vec == zeros(N)
    IN
    CASE link = 10 -> Return(VDivide(ones_vec, VTimes(mu, VMinus(ones_vec, mu))))
      [] link = 11 -> Return(zeros_vec)
      [] link = 12 -> Return(VDivide(ones_vec,
                                VTimes(VLog(VMinus(ones_vec, mu)), VMinus(ones_vec, mu))))
      [] link = 20 -> Return(VDivide(ones_vec, mu))
      [] link = 30 -> Return(ones_vec)
      [] link = 40 -> Return(VMinus(zeros_vec, VDivide(ones_vec, VTimes(mu, mu))))
      [] OTHER -> Return(zeros_vec)

----------------------------------------------------------------------------
\* linkfun.  The expression each case returns is kept as a term over mu,
\* ones_vec and zeros, and evaluated element by element.

EMu == [op |-> "mu"]
EOnes == [op |-> "ones"]
EZeros == [op |-> "zeros"]
ENeg(a) == [op |-> "neg", a |-> a]
ELog(a) == [op |-> "log", a |-> a]
ESub(l, r) == [op |-> "sub", l |-> l, r |-> r]
EMul(l, r) == [op |-> "mul", l |-> l, r |-> r]
EDiv(l, r) == [op |-> "div", l |-> l, r |-> r]

\* linkfun returning out as out.ones() left it for probit.
linkfun_expr_probit_ones(link) ==
    CASE link = 10 -> ELog(EDiv(EMu, ESub(EOnes, EMu)))
      [] link = 11 -> EOnes
      [] link = 12 -> ELog(EMul(ENeg(EOnes), ELog(ESub(EOnes, EMu))))
      [] link = 20 -> ELog(EMu)
      [] link = 30 -> EMu
      [] link = 40 -> EDiv(EOnes, EMu)
      [] OTHER -> EZeros

linkfun_expr(link) ==
    CASE link = 10 -> ELog(EDiv(EMu, ESub(EOnes, EMu)))
      [] link = 11 -> EZeros
      [] link = 12 -> ELog(EMul(ENeg(EOnes), ELog(ESub(EOnes, EMu))))
      [] link = 20 -> ELog(EMu)
      [] link = 30 -> EMu
      [] link = 40 -> EDiv(EOnes, EMu)
      [] OTHER -> EZeros

RECURSIVE Eval(_, _)
Eval(e, m) ==
    CASE e.op = "mu" -> m
      [] e.op = "ones" -> One
      [] e.op = "zeros" -> Zero
      [] e.op = "neg" -> Times(MinusOne, Eval(e.a, m))
      [] e.op = "log" -> Log(Eval(e.a, m))
      [] e.op = "sub" -> Minus(Eval(e.l, m), Eval(e.r, m))
      [] e.op = "mul" -> Times(Eval(e.l, m), Eval(e.r, m))
      [] e.op = "div" -> Divide(Eval(e.l, m), Eval(e.r, m))

linkfun(link, mu) ==
    LET N == Len(mu) IN Return([i \in 1..N |-> Eval(linkfun_expr(link), mu[i])])

----------------------------------------------------------------------------
\* invlink

invlink(link, eta) ==
    LET N == Len(eta)
        ones_vec == ones(N)
        zeros_vec == zeros(N)
    IN
    CASE link = 10 -> Return(VDivide(VExp(eta), VPlus(ones_vec, VExp(eta))))
      [] link = 11 -> Return(zeros_vec)
      [] link = 12 -> Return(VMinus(ones_vec,
                                VExp(VMinus(zeros_vec, VTimes(ones_vec, VExp(eta))))))
      [] link = 20 -> Return(VExp(eta))
      [] link = 30 -> Return(eta)
      [] link = 40 -> Return(VMinus(zeros_vec, VDivide(ones_vec, eta)))
      [] OTHER -> Return(zeros_vec)

----------------------------------------------------------------------------
\* The calls the fitting loop makes.  trace is the current pipeline: its
\* first call is given a vector of the caller's, each later call the vector
\* the call before it returned.

Families == {bin, pois, gaus, Gamma, "gamma", "Binomial"}
LinkCodes == {10, 11, 12, 20, 30, 40, 13, 50}

YVals == {Rat(-1, 1), Zero, Rat(1, 2), One, Rat(2, 1)}
MuVals == {Rat(-1, 1), Zero, Rat(1, 20000), Rat(1, 10000), Rat(1, 2000),
           Rat(1, 1000), Rat(1, 2), Rat(999, 1000), Rat(1999, 2000),
           Rat(9999, 10000), One, Rat(2, 1)}
LinkVals == {Rat(-1, 1), Zero, Rat(1, 4), Rat(1, 2), Rat(3, 4), One, Rat(2, 1)}
EtaVals == {Rat(-1, 1), Zero, Rat(1, 2), Rat(2, 1)}
UninitVals == {Zero, Rat(-3, 1)}

Vecs(S) == UNION {[1..n -> S] : n \in 0..MaxLen}

\* The means on which linkfun(link, .) and dlink(link, .) are finite.
LinkDomain(link) ==
    CASE link \in {10, 12} -> {m \in LinkVals : Less(Zero, m) /\ Less(m, One)}
      [] link = 20 -> {m \in LinkVals : Less(Zero, m)}
      [] link = 40 -> {m \in LinkVals : m # Zero}
      [] OTHER -> LinkVals

\* The linear predictors on which invlink(link, .) is finite.
EtaDomain(link) ==
    CASE link = 40 -> {e \in EtaVals : e # Zero}
      [] OTHER -> EtaVals

Last == trace[Len(trace)]

\* The previous call returned a vector, which the next call may be given.
CanFeed == /\ trace # <<>>
           /\ Len(trace) < MaxChain
           /\ Last.ret.status = "ok"

Init == trace = <<>>

InitialMu ==
    /\ trace = <<>>
    /\ \E family \in Families, y \in Vecs(YVals) :
      \E N \in 0..Len(y) :
        \E uninit \in [1..N -> UninitVals] :
          trace' = <<[fn |-> "initial_mu", family |-> family, x |-> y, N |-> N,
                      ret |-> initial_mu(family, y, N, uninit)]>>

Muvalid ==
    /\ trace = <<>>
    /\ \E family \in Families, mu \in Vecs(MuVals) :
      trace' = <<[fn |-> "muvalid", family |-> family, x |-> mu,
                  ret |-> muvalid(family, mu)]>>

MuvalidNext ==
    /\ CanFeed
    /\ Last.fn \in {"initial_mu", "mu_adjust"}
    /\ trace' = Append(trace, [fn |-> "muvalid", family |-> Last.family,
                               x |-> Last.ret.val,
                               ret |-> muvalid(Last.family, Last.ret.val)])

MuAdjust ==
    /\ trace = <<>>
    /\ \E family \in Families, mu \in Vecs(MuVals) :
      trace' = <<[fn |-> "mu_adjust", family |-> family, x |-> mu,
                  ret |-> mu_adjust(family, mu)]>>

MuAdjustNext ==
    /\ CanFeed
    /\ Last.fn \in {"initial_mu", "mu_adjust"}
    /\ trace' = Append(trace, [fn |-> "mu_adjust", family |-> Last.family,
                               x |-> Last.ret.val,
                               ret |-> mu_adjust(Last.family, Last.ret.val)])

Varfun ==
    /\ trace = <<>>
    /\ \E family \in Families, mu \in Vecs(MuVals) :
      trace' = <<[fn |-> "varfun", family |-> family, x |-> mu,
                  ret |-> varfun(family, mu)]>>

Dlink ==
    /\ trace = <<>>
    /\ \E link \in LinkCodes :
      \E mu \in Vecs(LinkDomain(link)) :
        trace' = <<[fn |-> "dlink", link |-> link, x |-> mu,
                    ret |-> dlink(link, mu)]>>

Linkfun ==
    /\ trace = <<>>
    /\ \E link \in LinkCodes :
      \E mu \in Vecs(LinkDomain(link)) :
        trace' = <<[fn |-> "linkfun", link |-> link, x |-> mu,
                    ret |-> linkfun(link, mu)]>>

Invlink ==
    /\ trace = <<>>
    /\ \E link \in LinkCodes :
      \E eta \in Vecs(EtaDomain(link)) :
        trace' = <<[fn |-> "invlink", link |-> link, x |-> eta,
                    ret |-> invlink(link, eta)]>>

InvlinkNext ==
    /\ CanFeed
    /\ Last.fn = "linkfun"
    /\ trace' = Append(trace, [fn |-> "invlink", link |-> Last.link,
                               x |-> Last.ret.val,
                               ret |-> invlink(Last.link, Last.ret.val)])

Next ==
    \/ InitialMu
    \/ Muvalid
    \/ MuvalidNext
    \/ MuAdjust
    \/ MuAdjustNext
    \/ Varfun
    \/ Dlink
    \/ Linkfun
    \/ Invlink
    \/ InvlinkNext

Spec == Init /\ [][Next]_vars

----------------------------------------------------------------------------
\* Properties.

Recognized == {bin, pois, gaus, Gamma}
Implemented == {10, 12, 20, 30, 40}

Calls == 1..Len(trace)
Fed == 2..Len(trace)

AllTrue(valid) == \A j \in 1..Len(valid) : valid[j] = One

\* -1, 0 or 1: the sign of a rational, of ln of a positive rational, and of
\* the products and reciprocals of these.
RECURSIVE Sign(_)
Sign(v) ==
    IF IsRat(v) THEN (IF v.n < 0 THEN -1 ELSE IF v.n = 0 THEN 0 ELSE 1)
    ELSE IF v.k = "scale" THEN Sign(v.c) * Sign(v.a)
    ELSE IF v.k = "inv" THEN Sign(v.a)
    ELSE IF v.k = "mul" THEN Sign(v.a) * Sign(v.b)
    ELSE IF v.k = "exp" THEN 1
    ELSE IF v.k = "ln" /\ IsRat(v.a) THEN Sign(Minus(v.a, One))
    ELSE 2  \* not determined

\* d linkfun / d mu at m, by the rules of differentiation applied to the
\* expression linkfun returns.
RECURSIVE Derivative(_, _)
Derivative(e, m) ==
    CASE e.op \in {"ones", "zeros"} -> Zero
      [] e.op = "mu" -> One
      [] e.op = "neg" -> Times(MinusOne, Derivative(e.a, m))
      [] e.op = "log" -> Divide(Derivative(e.a, m), Eval(e.a, m))
      [] e.op = "sub" -> Minus(Derivative(e.l, m), Derivative(e.r, m))
      [] e.op = "mul" -> Plus(Times(Derivative(e.l, m), Eval(e.r, m)),
                              Times(Eval(e.l, m), Derivative(e.r, m)))
      [] e.op = "div" -> Divide(Minus(Times(Derivative(e.l, m), Eval(e.r, m)),
                                      Times(Eval(e.l, m), Derivative(e.r, m))),
                                Times(Eval(e.r, m), Eval(e.r, m)))

\* C1: for every family, every element of muvalid(family, mu_adjust(family,
\* mu)) is true: a mean that mu_adjust has repaired tests as valid.
C1_AdjustedIsValid ==
    \A i \in Fed :
        (/\ trace[i].fn = "muvalid"
         /\ trace[i - 1].fn = "mu_adjust"
         /\ trace[i].family \in Recognized)
        => /\ trace[i].x = trace[i - 1].ret.val
           /\ trace[i].ret.status = "ok"
           /\ AllTrue(trace[i].ret.val)

\* C2: for every implemented link and every interior mu,
\* invlink(link, linkfun(link, mu)) = mu element-wise.
C2_RoundTrip ==
    \A i \in Fed :
        (/\ trace[i].fn = "invlink"
         /\ trace[i - 1].fn = "linkfun"
         /\ trace[i].link \in Implemented)
        => /\ trace[i].x = trace[i - 1].ret.val
           /\ trace[i].ret.status = "ok"
           /\ trace[i].ret.val = trace[i - 1].x

\* C3: for every implemented link and every interior mu, dlink(link, mu) is
\* the derivative of linkfun(link, .) at mu, in value and in sign.
C3_DlinkIsDerivative ==
    \A i \in Calls :
        (trace[i].fn = "dlink" /\ trace[i].link \in Implemented)
        => /\ trace[i].ret.status = "ok"
           /\ Len(trace[i].ret.val) = Len(trace[i].x)
           /\ \A j \in 1..Len(trace[i].x) :
                LET d == Derivative(linkfun_expr(trace[i].link), trace[i].x[j])
                IN  /\ trace[i].ret.val[j] = d
                    /\ Sign(trace[i].ret.val[j]) = Sign(d)

\* The element y of a response is outside the family's domain.
OutsideDomain(family, y) ==
    CASE family = bin -> y.n < 0 \/ y.n > y.d
      [] family = pois -> y.n < 0
      [] family = Gamma -> y.n <= 0
      [] family = gaus -> FALSE

\* C4: initial_mu fails exactly when some y[i], i < N, is outside the
\* family's domain (binomial: y < 0 or y > 1; poisson: y < 0; Gamma: y <= 0;
\* gaussian: never), and a failed call returns no vector.
C4_FailsIffOutsideDomain ==
    \A i \in Calls :
        (trace[i].fn = "initial_mu" /\ trace[i].family \in Recognized)
        => LET c == trace[i] IN
           /\ c.ret.status \in {"ok", "error"}
           /\ c.ret.status = "error"
                <=> \E j \in 1..c.N : OutsideDomain(c.family, c.x[j])
           /\ c.ret.status = "error" => "val" \notin DOMAIN c.ret

\* Gamma rejects a zero at the last index, after an element it accepts.
C4_Witness ==
    \E i \in Calls :
        /\ trace[i].fn = "initial_mu"
        /\ trace[i].family = Gamma
        /\ trace[i].N = 2
        /\ trace[i].x = <<One, Zero>>
        /\ trace[i].ret.status = "error"

\* The starting mean the family prescribes for the response element y.
StartingMean(family, y) ==
    CASE family = bin -> Rat(2 * y.n + y.d, 4 * y.d)
      [] family \in {pois, Gamma} -> Rat(10 * y.n + y.d, 10 * y.d)
      [] family = gaus -> y

\* C5: a successful initial_mu returns N elements, (y[i] + 0.5) / 2 for
\* binomial, y[i] + 0.1 for poisson and Gamma, y[i] for gaussian.
C5_StartingMeans ==
    \A i \in Calls :
        (/\ trace[i].fn = "initial_mu"
         /\ trace[i].family \in Recognized
         /\ trace[i].ret.status = "ok")
        => LET c == trace[i] IN
           /\ Len(c.ret.val) = c.N
           /\ \A j \in 1..c.N : c.ret.val[j] = StartingMean(c.family, c.x[j])

\* initial_mu("binomial", [0, 1], 2) = [0.25, 0.75]
C5_Witness ==
    \E i \in Calls :
        /\ trace[i].fn = "initial_mu"
        /\ trace[i].family = bin
        /\ trace[i].x = <<Zero, One>>
        /\ trace[i].N = 2
        /\ trace[i].ret = [status |-> "ok", val |-> <<Rat(1, 4), Rat(3, 4)>>]

\* m < 0.001, m > 0.999
Below001(m) == 1000 * m.n < m.d
Above999(m) == 1000 * m.n > 999 * m.d

\* C6: mu_adjust returns a vector of the length of mu, each element clamped
\* on its own: below 0.001 to 0.001 (binomial, poisson, Gamma), above 0.999
\* to 0.999 (binomial only), nothing for gaussian; an element inside the
\* closed range, boundaries included, is returned as it is.
C6_Clamps ==
    \A i \in Calls :
        (trace[i].fn = "mu_adjust" /\ trace[i].family \in Recognized)
        => LET c == trace[i] IN
           /\ c.ret.status = "ok"
           /\ Len(c.ret.val) = Len(c.x)
           /\ \A j \in 1..Len(c.x) :
                LET low == c.family # gaus /\ Below001(c.x[j])
                    high == c.family = bin /\ Above999(c.x[j])
                IN  /\ low => c.ret.val[j] = Rat(1, 1000)
                    /\ high => c.ret.val[j] = Rat(999, 1000)
                    /\ (~low /\ ~high) => c.ret.val[j] = c.x[j]

\* A binomial mean on the lower boundary is kept, and the one beside it is
\* clamped down to the upper boundary.
C6_Witness ==
    \E i \in Calls :
        /\ trace[i].fn = "mu_adjust"
        /\ trace[i].family = bin
        /\ trace[i].x = <<Rat(1, 1000), Rat(2, 1)>>
        /\ trace[i].ret = [status |-> "ok", val |-> <<Rat(1, 1000), Rat(999, 1000)>>]

\* m lies strictly inside the family's open interval.
InsideOpen(family, m) ==
    CASE family = bin -> 10000 * m.n > m.d /\ 10000 * m.n < 9999 * m.d
      [] family = pois -> 10000 * m.n > m.d
      [] family = Gamma -> 1000 * m.n > m.d
      [] family = gaus -> TRUE

\* C7: muvalid returns a vector of the length of mu whose element i is true
\* exactly when mu[i] is strictly inside the family's open interval
\* (binomial (0.0001, 0.9999), poisson above 0.0001, Gamma above 0.001,
\* gaussian always); a value on a boundary is invalid.
C7_ValidIffInsideOpen ==
    \A i \in Calls :
        (trace[i].fn = "muvalid" /\ trace[i].family \in Recognized)
        => LET c == trace[i] IN
           /\ c.ret.status = "ok"
           /\ Len(c.ret.val) = Len(c.x)
           /\ \A j \in 1..Len(c.x) :
                /\ c.ret.val[j] \in {Zero, One}
                /\ c.ret.val[j] = One <=> InsideOpen(c.family, c.x[j])

\* Both boundaries of the binomial interval are reported invalid.
C7_Witness ==
    \E i \in Calls :
        /\ trace[i].fn = "muvalid"
        /\ trace[i].family = bin
        /\ trace[i].x = <<Rat(1, 10000), Rat(9999, 10000)>>
        /\ trace[i].ret = [status |-> "ok", val |-> <<Zero, Zero>>]

\* C8: for a family tag that is not exactly one of the four, muvalid,
\* mu_adjust and varfun fail and return no vector, and initial_mu raises no
\* error and returns a vector of length N.
C8_UnknownFamily ==
    \A i \in Calls :
        (/\ trace[i].fn \in {"initial_mu", "muvalid", "mu_adjust", "varfun"}
         /\ trace[i].family \notin Recognized)
        => LET c == trace[i] IN
           IF c.fn = "initial_mu"
           THEN c.ret.status = "ok" /\ Len(c.ret.val) = c.N
           ELSE c.ret.status = "error" /\ "val" \notin DOMAIN c.ret

\* initial_mu returns two elements that are not computed from y for the tag
\* "gamma", and mu_adjust then fails on it.
C8_Witness ==
    /\ Len(trace) = 2
    /\ trace[1].fn = "initial_mu"
    /\ trace[1].family = "gamma"
    /\ trace[1].x = <<One, One>>
    /\ trace[1].ret = [status |-> "ok", val |-> <<Rat(-3, 1), Zero>>]
    /\ trace[2].fn = "mu_adjust"
    /\ trace[2].family = "gamma"
    /\ trace[2].ret.status = "error"

\* C9: for probit (11) and every code outside {10, 12, 20, 30, 40}, linkfun,
\* dlink and invlink raise no error and return a vector of zeros of the
\* length of the input.
C9_UnimplementedLinkGivesZeros ==
    \A i \in Calls :
        (/\ trace[i].fn \in {"linkfun", "dlink", "invlink"}
         /\ trace[i].link \notin Implemented)
        => /\ trace[i].ret.status = "ok"
           /\ Len(trace[i].ret.val) = Len(trace[i].x)
           /\ \A j \in 1..Len(trace[i].x) : trace[i].ret.val[j] = Zero

\* Probit maps a non-zero mean vector to zeros, and back to zeros.
C9_Witness ==
    /\ Len(trace) = 2
    /\ trace[1].fn = "linkfun"
    /\ trace[1].link = 11
    /\ trace[1].x = <<Rat(1, 2), Rat(2, 1)>>
    /\ trace[1].ret.val = <<Zero, Zero>>
    /\ trace[2].fn = "invlink"
    /\ trace[2].ret.val = <<Zero, Zero>>

====
